---- MODULE Spec2Model ----
(***************************************************************************)
(* Model of the sandbox HTTP gateway of src/main.py: the token gate, the   *)
(* command executor, the script runner and the filesystem gateway, over an *)
(* explicit model of the container's filesystem and of the processes the   *)
(* service leaves behind.                                                  *)
(*                                                                         *)
(* Text is a sequence of one-character strings, a file holds a sequence of *)
(* bytes (an ASCII character is its own byte, BadByte is a byte that is    *)
(* not valid UTF-8).  A file name is a sequence of characters, a resolved  *)
(* path is the sequence of the names from "/" down.                        *)
(***************************************************************************)
EXTENDS Integers, Sequences, FiniteSets, TLC

VARIABLES
    fs,     \* the filesystem
    procs,  \* the processes the service has started that still run
    req,    \* the request taken last
    resp,   \* the response given to it
    temp,   \* the name of the temp file run_code wrote for it, <<>> when it wrote none
    calls   \* the handlers that run side by side, each with the place it has reached

vars == <<fs, procs, req, resp, temp, calls>>

----------------------------------------------------------------------------
(* Bounds of the model *)

\* most entries (files and directories, "/" included) the filesystem holds
MaxEntries == 5
\* longest running time of a command, and largest timeout, in ticks
MaxTime == 2
\* most processes left running behind the service at one time
MaxProcs == 2
\* most handlers that run side by side
MaxCalls == 2

----------------------------------------------------------------------------
(* Characters: str.lower() and the code-point order that sorted() uses *)

Digits == <<"0", "1", "2", "3", "4", "5", "6", "7", "8", "9">>
Upper == <<"A", "B", "C", "D", "E", "F", "G", "H", "I", "J", "K", "L", "M",
           "N", "O", "P", "Q", "R", "S", "T", "U", "V", "W", "X", "Y", "Z">>
Lower == <<"a", "b", "c", "d", "e", "f", "g", "h", "i", "j", "k", "l", "m",
           "n", "o", "p", "q", "r", "s", "t", "u", "v", "w", "x", "y", "z">>

IndexOf(s, c) == CHOOSE i \in 1..Len(s) : s[i] = c
InSeq(s, c) == \E i \in 1..Len(s) : s[i] = c

\* the code point of an ASCII character that occurs in a name
Ord(c) ==
    IF InSeq(Digits, c) THEN 47 + IndexOf(Digits, c)
    ELSE IF InSeq(Upper, c) THEN 64 + IndexOf(Upper, c)
    ELSE IF InSeq(Lower, c) THEN 96 + IndexOf(Lower, c)
    ELSE IF c = "." THEN 46
    ELSE IF c = "_" THEN 95
    ELSE 0

LowerChar(c) == IF InSeq(Upper, c) THEN Lower[IndexOf(Upper, c)] ELSE c

\* str.lower()
StrLower(s) == [i \in 1..Len(s) |-> LowerChar(s[i])]

\* s < t for two strings, as Python compares them: by code point, a proper
\* prefix first
RECURSIVE StrLess(_, _)
StrLess(s, t) ==
    IF t = <<>> THEN FALSE
    ELSE IF s = <<>> THEN TRUE
    ELSE IF Ord(Head(s)) # Ord(Head(t)) THEN Ord(Head(s)) < Ord(Head(t))
    ELSE StrLess(Tail(s), Tail(t))

\* str(n) for n >= 0
RECURSIVE Decimal(_)
Decimal(n) == IF n < 10 THEN <<Digits[n + 1]>>
              ELSE Decimal(n \div 10) \o <<Digits[(n % 10) + 1]>>

----------------------------------------------------------------------------
(* Configuration *)

\* WORKSPACE = os.environ.get("WORKSPACE_DIR", "/workspace")
WORKSPACE == << <<"w">> >>
\* PUBLIC_DIR = os.path.join(WORKSPACE, "public")
PUBLIC_DIR == WORKSPACE \o << <<"p", "u", "b", "l", "i", "c">> >>
\* SANDBOX_TOKEN = os.environ.get("SANDBOX_TOKEN", "123456")
SANDBOX_TOKEN == "123456"

----------------------------------------------------------------------------
(* Paths *)

Dot == <<".">>

\* os.path.join(WORKSPACE, path) unless os.path.isabs(path): the components of
\* the path the handler hands to the operating system
FullPath(path) == IF path.abs THEN path.comps ELSE WORKSPACE \o path.comps

\* the resolution of a path by the operating system: "." names the directory
\* it stands in
Norm(p) == SelectSeq(p, LAMBDA n : n # Dot)

\* os.path.dirname
Dirname(p) == IF p = <<>> THEN <<>> ELSE SubSeq(p, 1, Len(p) - 1)

IsPrefix(p, q) == Len(p) <= Len(q) /\ SubSeq(q, 1, Len(p)) = p

----------------------------------------------------------------------------
(* The filesystem: a function from the resolved paths that exist to what   *)
(* is there                                                                *)

DirEntry == [kind |-> "dir", data |-> <<>>]
FileEntry(bytes) == [kind |-> "file", data |-> bytes]

\* os.path.exists, os.path.isdir
Exists(f, p) == Norm(p) \in DOMAIN f
IsDir(f, p) == Exists(f, p) /\ f[Norm(p)].kind = "dir"

\* f with entry e at path p
Put(f, p, e) == [q \in DOMAIN f \cup {p} |-> IF q = p THEN e ELSE f[q]]

\* os.makedirs(d, exist_ok=True): every missing directory down to d is made;
\* a file on the way is an error, raised before anything is made
Makedirs(f, d) ==
    LET n == Norm(d)
        pre == {SubSeq(n, 1, k) : k \in 0..Len(n)}
    IN IF \E q \in pre : q \in DOMAIN f /\ f[q].kind = "file"
       THEN [ok |-> FALSE, fs |-> f]
       ELSE [ok |-> TRUE,
             fs |-> [q \in DOMAIN f \cup pre |->
                        IF q \in DOMAIN f THEN f[q] ELSE DirEntry]]

\* open(p, "w") / open(p, "wb") followed by one write of bytes: the parent must
\* be a directory and p must not be one; the file is created or truncated
OpenWrite(f, p, bytes) ==
    LET n == Norm(p)
    IN IF n = <<>> \/ ~IsDir(f, Dirname(n)) \/ IsDir(f, n)
       THEN [ok |-> FALSE, fs |-> f]
       ELSE [ok |-> TRUE, fs |-> Put(f, n, FileEntry(bytes))]

----------------------------------------------------------------------------
(* Text and bytes *)

CR == "\r"
LF == "\n"
\* a byte that is no valid UTF-8, and U+FFFD, which errors='replace' decodes
\* it to
BadByte == "<ff>"
Replacement == "<fffd>"

\* os.linesep on POSIX
linesep == <<LF>>

\* writing with newline=None: every "\n" is written as os.linesep
RECURSIVE TranslateNewlines(_)
TranslateNewlines(s) ==
    IF s = <<>> THEN <<>>
    ELSE (IF Head(s) = LF THEN linesep ELSE <<Head(s)>>) \o TranslateNewlines(Tail(s))

\* the bytes open(..., "w", encoding="utf-8") writes for text: an ASCII character
\* encodes to itself
EncodeText(text) == TranslateNewlines(text)

\* decoding with errors='replace'
DecodeBytes(bytes) ==
    [i \in 1..Len(bytes) |-> IF bytes[i] = BadByte THEN Replacement ELSE bytes[i]]

\* reading with newline=None (universal newlines): "\r\n" and "\r" both read
\* as "\n"
RECURSIVE UniversalNewlines(_)
UniversalNewlines(s) ==
    IF s = <<>> THEN <<>>
    ELSE IF Head(s) = CR
         THEN IF Len(s) >= 2 /\ s[2] = LF
              THEN <<LF>> \o UniversalNewlines(SubSeq(s, 3, Len(s)))
              ELSE <<LF>> \o UniversalNewlines(Tail(s))
         ELSE <<Head(s)>> \o UniversalNewlines(Tail(s))

\* open(p, "r", encoding="utf-8", errors='replace').read()
ReadText(bytes) == UniversalNewlines(DecodeBytes(bytes))

----------------------------------------------------------------------------
(* Requests and responses.  req and resp are the request the service took  *)
(* last and the response it gave; every record has every field, a field    *)
(* the endpoint does not use holding its default.                          *)

\* the X-Sandbox-Token header: Header(None) is None when the header is absent
NoHeader == [present |-> FALSE, value |-> ""]
Header(v) == [present |-> TRUE, value |-> v]

RelPath(comps) == [abs |-> FALSE, comps |-> comps]
AbsPath(comps) == [abs |-> TRUE, comps |-> comps]

\* what a command does when the shell runs it: it is one simple command or a
\* compound one, runs for dur ticks, ends with exit code exit, and may touch
\* the filesystem
NoCmd == [compound |-> FALSE, dur |-> 0, exit |-> 0, effect |-> "none"]

NoReq ==
    [ep |-> "none", hdr |-> NoHeader, path |-> RelPath(<<>>), text |-> <<>>,
     filename |-> <<>>, language |-> <<>>, cmd |-> NoCmd, timeout |-> 0]

NoResp ==
    [status |-> 0, detail |-> "", exit_code |-> 0, temp_file |-> <<>>,
     path |-> <<>>, content |-> <<>>, items |-> <<>>, size |-> 0]

\* raise HTTPException(status_code=status, detail=detail)
HTTPException(status, detail) ==
    [NoResp EXCEPT !.status = status, !.detail = detail]

\* str(e) for an HTTPException e
StrHTTPException(status, detail) == ToString(status) \o ": " \o detail

Ok200 == [NoResp EXCEPT !.status = 200]

----------------------------------------------------------------------------
(* Processes left running behind the service: cur marks those the request  *)
(* taken last has spawned, left is the whole ticks a process still runs.    *)

\* n ticks pass: a process whose time is over has ended
Age(ps, n) ==
    LET alive == SelectSeq(ps, LAMBDA p : p.left >= n)
    IN [i \in 1..Len(alive) |-> [alive[i] EXCEPT !.left = @ - n]]

\* a new request arrives: none of the processes running is its own
Older(ps) == [i \in 1..Len(ps) |-> [ps[i] EXCEPT !.cur = FALSE]]

----------------------------------------------------------------------------
(* The token gate *)

\* a gate that checks only a header that is there
verify_token_if_present(h) == ~h.present \/ h.value = SANDBOX_TOKEN

\* verify_token: passes iff x_sandbox_token == SANDBOX_TOKEN
verify_token(h) == h.present /\ h.value = SANDBOX_TOKEN

Forbidden == HTTPException(403, "Invalid X-Sandbox-Token")

----------------------------------------------------------------------------
(* /write and /read *)

\* write_file, past the gate: the handler's answer and the filesystem it
\* leaves (the detail of a 500 is str(e) of the error of the operating system,
\* here the name of the call that failed)
write_file(f, r) ==
    LET full_path == FullPath(r.path)
        made == Makedirs(f, Dirname(full_path))
        wrote == OpenWrite(made.fs, full_path, EncodeText(r.text))
    IN IF ~made.ok THEN [resp |-> HTTPException(500, "makedirs"), fs |-> f]
       ELSE IF ~wrote.ok THEN [resp |-> HTTPException(500, "open"), fs |-> made.fs]
       ELSE [resp |-> [Ok200 EXCEPT !.path = full_path], fs |-> wrote.fs]

\* read_file, past the gate: the 404 it raises inside its try block is caught by
\* its own except Exception, which answers 500 with str(e) as the detail
read_file(f, r) ==
    LET full_path == FullPath(r.path)
    IN IF ~Exists(f, full_path)
       THEN HTTPException(500, StrHTTPException(404, "File not found"))
       ELSE IF IsDir(f, full_path) THEN HTTPException(500, "open")
       ELSE [Ok200 EXCEPT !.content = ReadText(f[Norm(full_path)].data)]

----------------------------------------------------------------------------
(* /list *)

\* the names in directory d (a resolved path)
Children(f, d) == {p[Len(p)] : p \in {q \in DOMAIN f : q # <<>> /\ Dirname(q) = d}}

\* a sort key that keeps the case of the name
KeyLess_cased(x, y) ==
    LET kx == IF x.type = "dir" THEN 0 ELSE 1
        ky == IF y.type = "dir" THEN 0 ELSE 1
    IN kx < ky \/ (kx = ky /\ StrLess(x.name, y.name))

\* the sort key of list_dir: (0 if x["type"] == "dir" else 1, x["name"].lower())
KeyLess(x, y) ==
    LET kx == IF x.type = "dir" THEN 0 ELSE 1
        ky == IF y.type = "dir" THEN 0 ELSE 1
    IN kx < ky \/ (kx = ky /\ StrLess(StrLower(x.name), StrLower(y.name)))

\* list.sort(key=...): a stable sort; x goes behind every item whose key is not
\* greater than its own
RECURSIVE Insert(_, _)
Insert(sorted, x) ==
    IF sorted = <<>> THEN <<x>>
    ELSE IF KeyLess(x, sorted[Len(sorted)])
         THEN Insert(SubSeq(sorted, 1, Len(sorted) - 1), x) \o <<sorted[Len(sorted)]>>
         ELSE sorted \o <<x>>

RECURSIVE SortItems(_)
SortItems(items) ==
    IF items = <<>> THEN <<>>
    ELSE Insert(SortItems(SubSeq(items, 1, Len(items) - 1)), items[Len(items)])

\* the names of a set in ascending code-point order
RECURSIVE Ascending(_)
Ascending(names) ==
    IF names = {} THEN <<>>
    ELSE LET least == CHOOSE n \in names : \A m \in names \ {n} : StrLess(n, m)
         IN <<least>> \o Ascending(names \ {least})

Reverse(s) == [i \in 1..Len(s) |-> s[Len(s) + 1 - i]]

\* os.listdir(d) returns the names in an order of the filesystem's choosing:
\* the two opposite orders are the ones explored
Listdir(f, d, backwards) ==
    IF backwards THEN Reverse(Ascending(Children(f, d))) ELSE Ascending(Children(f, d))

\* the item list_dir builds for name in directory d (st_mtime is not modelled;
\* the st_size of a directory is the filesystem's, taken as 0)
Item(f, d, name) ==
    LET e == f[d \o <<name>>]
    IN [name |-> name, type |-> IF e.kind = "dir" THEN "dir" ELSE "file",
        size |-> Len(e.data)]

\* list_dir, past the gate
list_dir(f, r, backwards) ==
    LET full_path == FullPath(r.path)
        d == Norm(full_path)
        names == Listdir(f, d, backwards)
        items == [i \in 1..Len(names) |-> Item(f, d, names[i])]
    IN IF ~Exists(f, full_path) THEN HTTPException(404, "Path not found")
       ELSE IF ~IsDir(f, full_path)
            THEN HTTPException(400, "Path is not a directory")
       ELSE [Ok200 EXCEPT !.path = full_path, !.items = SortItems(items)]

----------------------------------------------------------------------------
(* /delete *)

\* f without p and everything below it
Without(f, p) == [q \in {x \in DOMAIN f : ~IsPrefix(p, x)} |-> f[q]]

\* f without everything below p
Emptied(f, p) == [q \in {x \in DOMAIN f : x = p \/ ~IsPrefix(p, x)} |-> f[q]]

\* an rmtree that removes the directory and leaves what was in it
Rmtree_shallow(f, p) ==
    [ok |-> TRUE, fs |-> [q \in DOMAIN f \ {Norm(p)} |-> f[q]]]

\* shutil.rmtree(p): the tree below is removed, then os.rmdir(p), which the
\* operating system refuses for "/" and for a path whose last component is "."
Rmtree(f, p) ==
    IF p = <<>> \/ p[Len(p)] = Dot
    THEN [ok |-> FALSE, fs |-> Emptied(f, Norm(p))]
    ELSE [ok |-> TRUE, fs |-> Without(f, Norm(p))]

\* delete_path from its isdir test on: the path exists
delete_existing(f, r) ==
    LET full_path == FullPath(r.path)
        tree == Rmtree(f, full_path)
    IN IF IsDir(f, full_path)
       THEN IF tree.ok
            THEN [resp |-> [Ok200 EXCEPT !.path = full_path], fs |-> tree.fs]
            ELSE [resp |-> HTTPException(500, "rmdir"), fs |-> tree.fs]
       ELSE [resp |-> [Ok200 EXCEPT !.path = full_path],
             fs |-> Without(f, Norm(full_path))]

\* a delete_path that has nothing to do for a path that is not there
delete_path_quiet(f, r) ==
    IF ~Exists(f, FullPath(r.path))
    THEN [resp |-> [Ok200 EXCEPT !.path = FullPath(r.path)], fs |-> f]
    ELSE delete_existing(f, r)

\* delete_path, past the gate: its 404 passes its except HTTPException: raise
delete_path(f, r) ==
    IF ~Exists(f, FullPath(r.path))
    THEN [resp |-> HTTPException(404, "Path not found"), fs |-> f]
    ELSE delete_existing(f, r)

----------------------------------------------------------------------------
(* /upload *)

\* the index of the last "." of a name, 0 when it has none
LastDot(name) ==
    IF InSeq(name, ".")
    THEN CHOOSE i \in 1..Len(name) :
            name[i] = "." /\ \A j \in (i + 1)..Len(name) : name[j] # "."
    ELSE 0

\* os.path.splitext(name): the extension starts at the last dot, unless only
\* dots stand before it
splitext(name) ==
    LET dotIndex == LastDot(name)
    IN IF dotIndex > 0 /\ \E i \in 1..(dotIndex - 1) : name[i] # "."
       THEN [name |-> SubSeq(name, 1, dotIndex - 1),
             ext |-> SubSeq(name, dotIndex, Len(name))]
       ELSE [name |-> name, ext |-> <<>>]

\* f"{name}_{counter}{ext}"
Numbered(name, counter, ext) == name \o <<"_">> \o Decimal(counter) \o ext

\* the while loop of upload_file: the first of name_counter ext, name_(counter+1)
\* ext, ... that does not exist in target_dir
RECURSIVE FreeName(_, _, _, _, _)
FreeName(f, target_dir, name, ext, counter) ==
    IF Exists(f, target_dir \o <<Numbered(name, counter, ext)>>)
    THEN FreeName(f, target_dir, name, ext, counter + 1)
    ELSE Numbered(name, counter, ext)

\* an upload that keeps the name it was given
StoredName_given(f, target_dir, filename) == filename

\* the name upload_file stores filename under in target_dir
StoredName(f, target_dir, filename) ==
    IF Exists(f, target_dir \o <<filename>>)
    THEN FreeName(f, target_dir, splitext(filename).name, splitext(filename).ext, 1)
    ELSE filename

UploadedFile == <<"u", "p", "l", "o", "a", "d", "e", "d", "_", "f", "i", "l", "e">>

\* upload_file, past the gate: r.path is the subdir form field, r.text the bytes
\* of the file
upload_file(f, r) ==
    LET subdir == r.path.comps
        target_dir == IF subdir # <<>> THEN WORKSPACE \o subdir ELSE WORKSPACE
        made == Makedirs(f, target_dir)
        filename == IF r.filename # <<>> THEN r.filename ELSE UploadedFile
        stored == StoredName(made.fs, target_dir, filename)
        target_path == target_dir \o <<stored>>
        wrote == OpenWrite(made.fs, target_path, r.text)
        \* os.path.relpath(target_path, WORKSPACE)
        rel_path == SubSeq(Norm(target_path), Len(WORKSPACE) + 1, Len(Norm(target_path)))
    IN IF ~made.ok THEN [resp |-> HTTPException(500, "makedirs"), fs |-> f]
       ELSE IF ~wrote.ok THEN [resp |-> HTTPException(500, "open"), fs |-> made.fs]
       ELSE [resp |-> [Ok200 EXCEPT !.path = rel_path, !.size = Len(r.text)],
             fs |-> wrote.fs]

----------------------------------------------------------------------------
(* subprocess.run(..., shell=True, cwd=WORKSPACE, timeout=...) *)

\* the file a command with effect "touch" creates in its working directory
Touched == <<"o">>

\* what the command does to the filesystem as it starts: nothing, create a file
\* in the working directory, or remove the script it was started from
Effect(f, effect, script) ==
    IF effect = "touch" THEN OpenWrite(f, WORKSPACE \o <<Touched>>, <<>>).fs
    ELSE IF effect = "unlink" /\ script # <<>> THEN Without(f, WORKSPACE \o <<script>>)
    ELSE f

\* whether the timeout expires before the command, which runs for dur whole
\* ticks, has ended
TimedOut(cmd, timeout) == cmd.dur > timeout

\* the processes running when subprocess.run raises TimeoutExpired: it kills the
\* process it started, the shell, and waits for it.  A shell that has replaced
\* itself by a simple command (exec) is that command; a shell that runs a
\* compound command, or forks for a simple one, leaves its child running
AfterKill(ps, cmd, timeout, env) ==
    IF cmd.compound \/ ~env.execs
    THEN Age(ps, timeout) \o <<[cur |-> TRUE, left |-> cmd.dur - timeout]>>
    ELSE Age(ps, timeout)

\* subprocess.run: outcome "error" when the shell cannot be started (the
\* working directory is missing, or fork fails), "timeout" on TimeoutExpired,
\* "exit" with the exit code otherwise
subprocess_run(f, ps, cmd, timeout, script, env) ==
    IF ~IsDir(f, WORKSPACE) \/ ~env.spawn
    THEN [outcome |-> "error", exit_code |-> 0, fs |-> f, procs |-> ps]
    ELSE IF TimedOut(cmd, timeout)
    THEN [outcome |-> "timeout", exit_code |-> 0,
          fs |-> Effect(f, cmd.effect, script),
          procs |-> AfterKill(ps, cmd, timeout, env)]
    ELSE [outcome |-> "exit", exit_code |-> cmd.exit,
          fs |-> Effect(f, cmd.effect, script),
          procs |-> Age(ps, cmd.dur)]

\* execute, past the gate (stdout and stderr are not modelled)
execute(f, ps, r, env) ==
    LET result == subprocess_run(f, ps, r.cmd, r.timeout, <<>>, env)
    IN IF result.outcome = "timeout"
       THEN [resp |-> HTTPException(408, "Command timed out"),
             fs |-> result.fs, procs |-> result.procs]
       ELSE IF result.outcome = "error"
       THEN [resp |-> HTTPException(500, "subprocess"),
             fs |-> result.fs, procs |-> result.procs]
       ELSE [resp |-> [Ok200 EXCEPT !.exit_code = result.exit_code],
             fs |-> result.fs, procs |-> result.procs]

----------------------------------------------------------------------------
(* /run_code *)

python == <<"p", "y", "t", "h", "o", "n">>
python3 == python \o <<"3">>
py == <<"p", "y">>
bash == <<"b", "a", "s", "h">>
sh == <<"s", "h">>
node == <<"n", "o", "d", "e">>
javascript == <<"j", "a", "v", "a", "s", "c", "r", "i", "p", "t">>
js == <<"j", "s">>

LANGUAGE_RUNNERS ==
    (python :> python3) @@ (python3 :> python3) @@ (py :> python3) @@
    (bash :> bash) @@ (sh :> sh) @@
    (node :> node) @@ (javascript :> node) @@ (js :> node)

LANGUAGE_EXTENSIONS ==
    (python :> <<".", "p", "y">>) @@ (python3 :> <<".", "p", "y">>) @@
    (py :> <<".", "p", "y">>) @@
    (bash :> <<".", "s", "h">>) @@ (sh :> <<".", "s", "h">>) @@
    (node :> <<".", "j", "s">>) @@ (javascript :> <<".", "j", "s">>) @@
    (js :> <<".", "j", "s">>)

\* the length of the random part of a temp file's name: uuid4().hex[:8]
HexLen == 8

\* f"_run_{uuid.uuid4().hex[:8]}{ext}"
TempFilename(hex, ext) ==
    <<"_", "r", "u", "n", "_">> \o SubSeq(hex, 1, HexLen) \o ext

\* a test of the tag as it was sent
Supported_cased(language) == language \in DOMAIN LANGUAGE_RUNNERS

\* whether run_code accepts the language tag
Supported(language) == StrLower(language) \in DOMAIN LANGUAGE_RUNNERS

\* a finally block that removes the temp file
Cleanup_removes(f, temp_path) == Without(f, temp_path)

\* the finally block of run_code: the removal of the temp file is commented out
Cleanup(f, temp_path) == f

\* run_code, past the gate; hex is uuid4().hex
run_code(f, ps, r, hex, env) ==
    LET lang == StrLower(r.language)
        ext == LANGUAGE_EXTENSIONS[lang]
        temp_filename == TempFilename(hex, ext)
        temp_path == WORKSPACE \o <<temp_filename>>
        wrote == OpenWrite(f, temp_path, EncodeText(r.text))
        result == subprocess_run(wrote.fs, ps, r.cmd, r.timeout, temp_filename, env)
    IN IF ~Supported(r.language)
       THEN [resp |-> HTTPException(400, "Unsupported language"), fs |-> f,
             procs |-> ps, temp |-> <<>>]
       ELSE IF ~wrote.ok
       THEN [resp |-> HTTPException(500, "open"), fs |-> Cleanup(f, temp_path),
             procs |-> ps, temp |-> <<>>]
       ELSE IF result.outcome = "timeout"
       THEN [resp |-> HTTPException(408, "Code execution timed out"),
             fs |-> Cleanup(result.fs, temp_path), procs |-> result.procs,
             temp |-> temp_filename]
       ELSE IF result.outcome = "error"
       THEN [resp |-> HTTPException(500, "subprocess"),
             fs |-> Cleanup(result.fs, temp_path), procs |-> result.procs,
             temp |-> temp_filename]
       ELSE [resp |-> [Ok200 EXCEPT !.exit_code = result.exit_code,
                                    !.temp_file = temp_filename],
             fs |-> Cleanup(result.fs, temp_path), procs |-> result.procs,
             temp |-> temp_filename]

----------------------------------------------------------------------------
(* The requests the model draws *)

FileA == <<"a", ".", "t">>
FileB == <<"B">>
DirD == <<"d">>

GoodHeader == Header(SANDBOX_TOKEN)
Headers == {NoHeader, GoodHeader, Header("12345")}

WritePaths == {RelPath(<<FileA>>), RelPath(<<DirD, FileA>>), AbsPath(<<FileA>>)}
Texts == {<<>>, <<"x">>, <<"x", CR, LF>>}
ReadPaths == WritePaths \cup {RelPath(<<DirD>>)}
ListPaths == {RelPath(<<Dot>>), RelPath(<<DirD>>), RelPath(<<FileA>>)}
DeletePaths == {RelPath(<<FileA>>), RelPath(<<DirD>>), RelPath(<<Dot>>), AbsPath(<<FileA>>)}

Filenames == {FileA, FileB}
Subdirs == {<<>>, <<DirD>>}
Blobs == {<<"y">>, <<BadByte>>}

Cmd(compound, dur, exit, effect) ==
    [compound |-> compound, dur |-> dur, exit |-> exit, effect |-> effect]
\* "true", "false", "sleep MaxTime", "sleep MaxTime; true"
Commands ==
    {Cmd(FALSE, 0, 0, "none"), Cmd(FALSE, 0, 1, "none"),
     Cmd(FALSE, MaxTime, 0, "none"), Cmd(TRUE, MaxTime, 0, "none")}
\* "touch o"
TouchCmd == Cmd(FALSE, 0, 0, "touch")
\* scripts that end at once, fail, sleep, or remove the file they were started
\* from
Scripts ==
    {Cmd(FALSE, 0, 0, "none"), Cmd(FALSE, 0, 1, "none"),
     Cmd(FALSE, MaxTime, 0, "none"), Cmd(FALSE, 0, 0, "unlink")}
\* the shortest timeout and the longest
Timeouts == {1, MaxTime}
Languages == {<<"P", "y">>, js, <<"R", "u", "b", "y">>}
Codes == {<<"c">>}

Rep(c, n) == [i \in 1..n |-> c]
\* values of uuid4().hex
Uuids == {Rep("0", 32), <<"1">> \o Rep("0", 31)}

\* what the operating system decides: whether the shell can be started, and,
\* where that makes a difference (a simple command that runs into the timeout),
\* whether the shell replaces itself by the command or forks
Envs(cmd, timeout) ==
    IF TimedOut(cmd, timeout) /\ ~cmd.compound
    THEN [spawn : BOOLEAN, execs : BOOLEAN]
    ELSE [spawn : BOOLEAN, execs : {TRUE}]

----------------------------------------------------------------------------
(* Handlers in flight *)

\* a handler that has not been entered: r is its request, path the file it has
\* settled on, hex the uuid4 it drew, ran the code its interpreter read, resp
\* its answer, order its place among the handlers that have answered
NoCall ==
    [pc |-> "idle", r |-> NoReq, path |-> <<>>, hex |-> <<>>, ran |-> <<>>,
     resp |-> NoResp, order |-> 0]

Calls == 1..MaxCalls

----------------------------------------------------------------------------
(* The service *)

\* app start: WORKSPACE and PUBLIC_DIR are made
Init ==
    /\ fs = Makedirs(Put(<<>> :> DirEntry, <<>>, DirEntry), PUBLIC_DIR).fs
    /\ procs = <<>>
    /\ req = NoReq
    /\ resp = NoResp
    /\ temp = <<>>
    /\ calls = [i \in Calls |-> NoCall]

\* a protected endpoint takes request r: Depends(verify_token) runs first, and
\* the handler, whose answer is out, only past it
Handle(r, out) ==
    /\ req' = r
    /\ IF verify_token(r.hdr)
       THEN resp' = out.resp /\ fs' = out.fs /\ procs' = out.procs /\ temp' = out.temp
       ELSE resp' = Forbidden /\ fs' = fs /\ procs' = Older(procs) /\ temp' = <<>>
    /\ Cardinality(DOMAIN fs') <= MaxEntries
    /\ Len(procs') <= MaxProcs
    /\ UNCHANGED calls

Execute(hdrs, cmds) ==
    \E h \in hdrs, c \in cmds, t \in Timeouts : \E env \in Envs(c, t) :
        LET r == [NoReq EXCEPT !.ep = "execute", !.hdr = h, !.cmd = c, !.timeout = t]
            out == execute(fs, Older(procs), r, env)
        IN Handle(r, [resp |-> out.resp, fs |-> out.fs, procs |-> out.procs,
                      temp |-> <<>>])

RunCode(hdrs, langs, scripts) ==
    \E h \in hdrs, l \in langs, code \in Codes, c \in scripts,
       t \in Timeouts, hex \in Uuids : \E env \in Envs(c, t) :
        LET r == [NoReq EXCEPT !.ep = "run_code", !.hdr = h, !.language = l,
                               !.text = code, !.cmd = c, !.timeout = t]
        IN Handle(r, run_code(fs, Older(procs), r, hex, env))

WriteFile(hdrs, paths, texts) ==
    \E h \in hdrs, p \in paths, t \in texts :
        LET r == [NoReq EXCEPT !.ep = "write", !.hdr = h, !.path = p, !.text = t]
            out == write_file(fs, r)
        IN Handle(r, [resp |-> out.resp, fs |-> out.fs, procs |-> Older(procs), temp |-> <<>>])

ReadFile(hdrs, paths) ==
    \E h \in hdrs, p \in paths :
        LET r == [NoReq EXCEPT !.ep = "read", !.hdr = h, !.path = p]
        IN Handle(r, [resp |-> read_file(fs, r), fs |-> fs, procs |-> Older(procs), temp |-> <<>>])

ListDir(hdrs, paths) ==
    \E h \in hdrs, p \in paths, backwards \in BOOLEAN :
        LET r == [NoReq EXCEPT !.ep = "list", !.hdr = h, !.path = p]
        IN Handle(r, [resp |-> list_dir(fs, r, backwards), fs |-> fs,
                      procs |-> Older(procs), temp |-> <<>>])

DeletePath(hdrs, paths) ==
    \E h \in hdrs, p \in paths :
        LET r == [NoReq EXCEPT !.ep = "delete", !.hdr = h, !.path = p]
            out == delete_path(fs, r)
        IN Handle(r, [resp |-> out.resp, fs |-> out.fs, procs |-> Older(procs), temp |-> <<>>])

UploadFile(hdrs, names, subdirs, blobs) ==
    \E h \in hdrs, n \in names, d \in subdirs, b \in blobs :
        LET r == [NoReq EXCEPT !.ep = "upload", !.hdr = h, !.path = RelPath(d),
                               !.filename = n, !.text = b]
            out == upload_file(fs, r)
        IN Handle(r, [resp |-> out.resp, fs |-> out.fs, procs |-> Older(procs), temp |-> <<>>])

\* time passes while the service is idle
Tick ==
    /\ procs # <<>>
    /\ procs' = Age(procs, 1)
    /\ UNCHANGED <<fs, req, resp, temp, calls>>

\* The filesystem gateway, with every path, text and file of the model
NextFiles ==
    \/ WriteFile({GoodHeader}, WritePaths, Texts)
    \/ ReadFile({GoodHeader}, ReadPaths)
    \/ ListDir({GoodHeader}, ListPaths)
    \/ DeletePath({GoodHeader}, DeletePaths)
    \/ UploadFile({GoodHeader}, Filenames, Subdirs, Blobs)

SpecFiles == Init /\ [][NextFiles]_vars

\* The command executor and the script runner, with every command, script and
\* language of the model
NextRun ==
    \/ Execute({GoodHeader}, Commands)
    \/ RunCode({GoodHeader}, Languages, Scripts)
    \/ DeletePath({GoodHeader}, {AbsPath(WORKSPACE)})
    \/ Tick

SpecRun == Init /\ [][NextRun]_vars

\* The whole service behind its gate: every endpoint, with every header of the
\* model
Next ==
    \/ Execute(Headers, {TouchCmd, Cmd(TRUE, MaxTime, 0, "none")})
    \/ RunCode(Headers, {py}, {Cmd(FALSE, 0, 0, "none")})
    \/ WriteFile(Headers, {RelPath(<<FileA>>)}, {<<"x">>})
    \/ ReadFile(Headers, {RelPath(<<FileA>>)})
    \/ ListDir(Headers, {RelPath(<<Dot>>)})
    \/ DeletePath(Headers, {RelPath(<<FileA>>)})
    \/ UploadFile(Headers, {FileA}, {<<DirD>>}, {<<"y">>})
    \/ Tick

Spec == Init /\ [][Next]_vars

----------------------------------------------------------------------------
(* The token gate (Spec) *)

\* the header of a request is exactly the configured secret
TokenMatches(r) == r.hdr.present /\ r.hdr.value = SANDBOX_TOKEN

\* C1: a request whose X-Sandbox-Token is absent or is not the secret is
\* answered 403 and changes nothing (no file is written or removed, no process
\* is started); a request whose header is the secret is never answered 403.
GateLaw ==
    [][/\ ~TokenMatches(req') =>
            /\ resp'.status = 403
            /\ fs' = fs
            /\ Len(procs') <= Len(procs)
            /\ \A i \in 1..Len(procs') : ~procs'[i].cur
       /\ TokenMatches(req') => resp'.status # 403]_vars

\* a command that would have created a file was sent with a wrong token, was
\* answered 403, and the file is not there
GateWitness ==
    /\ req.ep = "execute" /\ req.cmd = TouchCmd
    /\ req.hdr = Header("12345")
    /\ resp.status = 403
    /\ ~Exists(fs, WORKSPACE \o <<Touched>>)

----------------------------------------------------------------------------
(* The filesystem gateway (SpecFiles) *)

\* C2: /read of a path that does not exist answers 404.
ReadMissingIs404 ==
    (req.ep = "read" /\ ~Exists(fs, FullPath(req.path))) => resp.status = 404

\* C3: a /read that follows a successful /write of the same path at once
\* answers 200 with exactly the content that was written.
WriteReadRoundTrip ==
    [][(/\ req.ep = "write" /\ resp.status = 200
        /\ req'.ep = "read" /\ req'.path = req.path)
       => (resp'.status = 200 /\ resp'.content = req.text)]_vars

\* stem and ext are the name split before its extension: the extension starts
\* at the last dot of the name, and a name with no dot past its first
\* character has none
IsStemExt(name, stem, ext) ==
    /\ stem \o ext = name
    /\ IF \E i \in 2..Len(name) : name[i] = "." /\ \E j \in 1..(i - 1) : name[j] # "."
       THEN ext # <<>> /\ ext[1] = "." /\ \A i \in 2..Len(ext) : ext[i] # "."
       ELSE ext = <<>>

\* C4: a successful /upload stores the content in a file that did not exist,
\* the returned path names it, and every entry that existed is unchanged; when
\* the filename exists in the target directory the file is stored as
\* <stem>_<k><ext> for the least k >= 1 whose name is unused.
UploadCollisionLaw ==
    [][(req'.ep = "upload" /\ resp'.status = 200) =>
        LET dir == WORKSPACE \o req'.path.comps
            stored == WORKSPACE \o resp'.path
        IN /\ stored \notin DOMAIN fs
           /\ stored \in DOMAIN fs' /\ fs'[stored] = FileEntry(req'.text)
           /\ Dirname(stored) = dir
           /\ \A p \in DOMAIN fs : p \in DOMAIN fs' /\ fs'[p] = fs[p]
           /\ IF dir \o <<req'.filename>> \in DOMAIN fs
              THEN \E k \in 1..MaxEntries, i \in 0..Len(req'.filename) :
                      LET stem == SubSeq(req'.filename, 1, i)
                          ext == SubSeq(req'.filename, i + 1, Len(req'.filename))
                      IN /\ IsStemExt(req'.filename, stem, ext)
                         /\ stored = dir \o <<stem \o <<"_">> \o Decimal(k) \o ext>>
                         /\ \A j \in 1..(k - 1) :
                               dir \o <<stem \o <<"_">> \o Decimal(j) \o ext>> \in DOMAIN fs
              ELSE stored = dir \o <<req'.filename>>]_vars

\* the third upload of a.t: a.t and a_1.t are there, and it is stored as a_2.t
UploadWitness ==
    /\ req.ep = "upload" /\ req.filename = FileA /\ resp.status = 200
    /\ resp.path = << <<"a", "_", "2", ".", "t">> >>
    /\ Exists(fs, WORKSPACE \o <<FileA>>)
    /\ Exists(fs, WORKSPACE \o << <<"a", "_", "1", ".", "t">> >>)
    /\ fs[WORKSPACE \o <<FileA>>].data # req.text

\* C6: /delete of a path that does not exist answers 404 and changes nothing,
\* and after a successful /delete the path does not exist, so that every
\* further /delete of it answers 404 until it is created again.
DeleteMissingLaw ==
    [][req'.ep = "delete" =>
        /\ ~Exists(fs, FullPath(req'.path)) => (resp'.status = 404 /\ fs' = fs)
        /\ resp'.status = 200 => ~Exists(fs', FullPath(req'.path))]_vars

\* a.t is deleted again after it was there and was deleted: a_1.t is only ever
\* stored beside an a.t
DeleteWitness ==
    /\ req.ep = "delete" /\ req.path = RelPath(<<FileA>>)
    /\ resp.status = 404
    /\ Exists(fs, WORKSPACE \o << <<"a", "_", "1", ".", "t">> >>)

\* C7: a successful /list has one item per child of the directory and no
\* other, each with its kind, every dir before every file, and the items of
\* one kind in non-decreasing order of their lower-cased names.
ListingLaw ==
    (req.ep = "list" /\ resp.status = 200) =>
        LET d == Norm(FullPath(req.path))
            below == {p \in DOMAIN fs : Len(p) = Len(d) + 1 /\ IsPrefix(d, p)}
            items == resp.items
        IN /\ Len(items) = Cardinality(below)
           /\ {d \o <<items[i].name>> : i \in 1..Len(items)} = below
           /\ \A i \in 1..Len(items) :
                 /\ items[i].type \in {"dir", "file"}
                 /\ items[i].type = "dir" <=> fs[d \o <<items[i].name>>].kind = "dir"
           /\ \A i, j \in 1..Len(items) : i < j =>
                 /\ ~(items[i].type = "file" /\ items[j].type = "dir")
                 /\ items[i].type = items[j].type =>
                       ~StrLess(StrLower(items[j].name), StrLower(items[i].name))

\* the listing of a directory that holds a directory and the files a.t and B:
\* the directory comes first, and a.t before B, which the code points put
\* the other way round
ListingWitness ==
    /\ req.ep = "list" /\ resp.status = 200 /\ Len(resp.items) >= 3
    /\ resp.items[1].type = "dir"
    /\ \E i, j \in 1..Len(resp.items) :
          /\ i < j
          /\ resp.items[i].name = FileA /\ resp.items[i].type = "file"
          /\ resp.items[j].name = FileB /\ resp.items[j].type = "file"

\* C9: a successful /delete of P removes P and everything below it and nothing
\* else: every other entry is there afterwards, unchanged.
DeleteFrameLaw ==
    [][(req'.ep = "delete" /\ resp'.status = 200) =>
        LET p == Norm(FullPath(req'.path))
        IN /\ p \in DOMAIN fs
           /\ DOMAIN fs' = {q \in DOMAIN fs : ~IsPrefix(p, q)}
           /\ \A q \in DOMAIN fs' : fs'[q] = fs[q]
           /\ fs[p].kind = "file" => DOMAIN fs' = DOMAIN fs \ {p}]_vars

\* directory d is deleted (it is made with a file in it, which no request of
\* SpecFiles removes alone) and a.t beside it is still there
DeleteFrameWitness ==
    /\ req.ep = "delete" /\ req.path = RelPath(<<DirD>>)
    /\ resp.status = 200
    /\ ~Exists(fs, WORKSPACE \o <<DirD>>)
    /\ ~Exists(fs, WORKSPACE \o <<DirD, FileA>>)
    /\ Exists(fs, WORKSPACE \o <<FileA>>)

----------------------------------------------------------------------------
(* The command executor and the script runner (SpecRun) *)

\* C5: when the command of /execute or the script of /run_code runs into its
\* timeout, the answer is 408 and no process started for the request is
\* running when it is given.
TimeoutLaw ==
    req.ep \in {"execute", "run_code"} =>
        /\ resp.status = 200 => req.cmd.dur <= req.timeout
        /\ resp.status = 408 => \A i \in 1..Len(procs) : ~procs[i].cur

\* two tags are the same but for the case of their letters
SameButCase(s, t) ==
    Len(s) = Len(t) /\ \A i \in 1..Len(s) : LowerChar(s[i]) = LowerChar(t[i])

\* s ends with e
EndsWith(s, e) == Len(e) <= Len(s) /\ SubSeq(s, Len(s) - Len(e) + 1, Len(s)) = e

\* C8: /run_code with a language tag that matches no supported language, the
\* case of letters left aside, answers 400 and writes no file and starts no
\* process; with a tag that matches one it never answers 400, and the temp
\* file it writes has the extension of that language.
LanguageLaw ==
    [][req'.ep = "run_code" =>
        IF \E l \in DOMAIN LANGUAGE_RUNNERS : SameButCase(req'.language, l)
        THEN /\ resp'.status # 400
             /\ \A l \in DOMAIN LANGUAGE_RUNNERS :
                   (SameButCase(req'.language, l) /\ temp' # <<>>)
                   => EndsWith(temp', LANGUAGE_EXTENSIONS[l])
             /\ resp'.status = 200 => resp'.temp_file = temp' /\ temp' # <<>>
        ELSE /\ resp'.status = 400
             /\ fs' = fs
             /\ temp' = <<>>
             /\ \A i \in 1..Len(procs') : ~procs'[i].cur]_vars

\* the tag "Py" was accepted and the code was written to a .py file
LanguageWitness ==
    /\ req.ep = "run_code" /\ req.language = <<"P", "y">>
    /\ resp.status = 200
    /\ EndsWith(resp.temp_file, <<".", "p", "y">>)
    /\ Exists(fs, WORKSPACE \o <<resp.temp_file>>)

\* the temp file of the request taken last is in the workspace root and holds
\* the code that was sent
TempFileKept ==
    /\ Exists(fs, WORKSPACE \o <<temp>>)
    /\ fs[WORKSPACE \o <<temp>>] = FileEntry(req.text)
    /\ resp.status = 200 => resp.temp_file = temp

\* C10 as claimed: whenever /run_code has written its temp file, the file is
\* there with the code when the request has ended, whatever the outcome.
TempFilePersists ==
    (req.ep = "run_code" /\ temp # <<>>) => TempFileKept

\* C10 as amended: the same, for code that does not itself remove the file it
\* was started from.
TempFilePersistsUnlessRemoved ==
    (req.ep = "run_code" /\ temp # <<>> /\ req.cmd.effect # "unlink") => TempFileKept

\* a script ran into its timeout and was answered 408, and its temp file is
\* there with the code
TempFileWitness ==
    /\ req.ep = "run_code" /\ resp.status = 408 /\ temp # <<>>
    /\ req.cmd.effect # "unlink"
    /\ TempFileKept

----------------------------------------------------------------------------
(* Handlers side by side: the steps of /upload, /write and /run_code *)
(* (SpecConc).  The framework runs the def handlers on a thread pool and the *)
(* async def handler on the event loop, so the handlers of different         *)
(* requests take their steps on the one filesystem in any order.             *)

\* open(p, "w") / open(p, "wb"): the parent must be a directory and p must not
\* be one; the file is created, or cut to nothing when it exists
Open(f, p) == OpenWrite(f, p, <<>>)

\* f.write(bytes) and the close at the end of the with block: the bytes go in
\* at offset 0 of the file as it is by then and what lies behind them stays
\* (the file is the one at p still: nothing in SpecConc unlinks)
WriteClose(f, p, bytes) ==
    LET n == Norm(p)
    IN IF n \notin DOMAIN f \/ f[n].kind # "file" THEN f
       ELSE Put(f, n, FileEntry(bytes \o SubSeq(f[n].data, Len(bytes) + 1,
                                                Len(f[n].data))))

\* how many handlers have answered
Finished(cs) == Cardinality({i \in DOMAIN cs : cs[i].pc = "done"})

\* handler i, as c, goes on to its next step
Step(i, c) ==
    /\ calls' = [calls EXCEPT ![i] = c]
    /\ UNCHANGED <<req, resp, temp>>

\* handler i, as c, answers out
Return(i, c, out, temp_filename) ==
    /\ calls' = [calls EXCEPT ![i] = [c EXCEPT !.pc = "done", !.resp = out,
                                               !.order = Finished(calls) + 1]]
    /\ req' = c.r
    /\ resp' = out
    /\ temp' = temp_filename

\* upload_file up to its await: the gate, the target directory and the name no
\* file has at this moment
UploadCheck(hdrs, names, subdirs, blobs) ==
    \E i \in Calls, h \in hdrs, n \in names, d \in subdirs, b \in blobs :
        LET r == [NoReq EXCEPT !.ep = "upload", !.hdr = h, !.path = RelPath(d),
                               !.filename = n, !.text = b]
            c == [NoCall EXCEPT !.r = r]
            target_dir == IF d # <<>> THEN WORKSPACE \o d ELSE WORKSPACE
            made == Makedirs(fs, target_dir)
            filename == IF n # <<>> THEN n ELSE UploadedFile
            target_path == target_dir \o <<StoredName(made.fs, target_dir, filename)>>
        IN /\ calls[i].pc = "idle"
           /\ IF ~verify_token(h) THEN Return(i, c, Forbidden, <<>>) /\ fs' = fs
              ELSE IF ~made.ok
              THEN Return(i, c, HTTPException(500, "makedirs"), <<>>) /\ fs' = fs
              ELSE /\ Step(i, [c EXCEPT !.pc = "await", !.path = target_path])
                   /\ fs' = made.fs
           /\ Cardinality(DOMAIN fs') <= MaxEntries
           /\ UNCHANGED procs

\* upload_file past its await: open(target_path, "wb")
UploadOpen ==
    \E i \in Calls :
        LET c == calls[i]
            opened == Open(fs, c.path)
        IN /\ c.r.ep = "upload" /\ c.pc = "await"
           /\ IF ~opened.ok
              THEN Return(i, c, HTTPException(500, "open"), <<>>) /\ fs' = fs
              ELSE Step(i, [c EXCEPT !.pc = "opened"]) /\ fs' = opened.fs
           /\ Cardinality(DOMAIN fs') <= MaxEntries
           /\ UNCHANGED procs

\* upload_file to its end: f.write(content), the close and the answer
UploadWrite ==
    \E i \in Calls :
        LET c == calls[i]
            target_path == Norm(c.path)
            rel_path == SubSeq(target_path, Len(WORKSPACE) + 1, Len(target_path))
        IN /\ c.r.ep = "upload" /\ c.pc = "opened"
           /\ fs' = WriteClose(fs, c.path, c.r.text)
           /\ Return(i, c, [Ok200 EXCEPT !.path = rel_path, !.size = Len(c.r.text)],
                     <<>>)
           /\ UNCHANGED procs

\* write_file up to the body of its with block: the gate, the parent
\* directories and open(full_path, "w")
WriteOpen(hdrs, paths, texts) ==
    \E i \in Calls, h \in hdrs, p \in paths, t \in texts :
        LET r == [NoReq EXCEPT !.ep = "write", !.hdr = h, !.path = p, !.text = t]
            c == [NoCall EXCEPT !.r = r]
            full_path == FullPath(p)
            made == Makedirs(fs, Dirname(full_path))
            opened == Open(made.fs, full_path)
        IN /\ calls[i].pc = "idle"
           /\ IF ~verify_token(h) THEN Return(i, c, Forbidden, <<>>) /\ fs' = fs
              ELSE IF ~made.ok
              THEN Return(i, c, HTTPException(500, "makedirs"), <<>>) /\ fs' = fs
              ELSE IF ~opened.ok
              THEN Return(i, c, HTTPException(500, "open"), <<>>) /\ fs' = made.fs
              ELSE /\ Step(i, [c EXCEPT !.pc = "opened", !.path = full_path])
                   /\ fs' = opened.fs
           /\ Cardinality(DOMAIN fs') <= MaxEntries
           /\ UNCHANGED procs

\* write_file to its end: f.write(req.content), the close and the answer
WriteFlush ==
    \E i \in Calls :
        LET c == calls[i]
        IN /\ c.r.ep = "write" /\ c.pc = "opened"
           /\ fs' = WriteClose(fs, c.path, EncodeText(c.r.text))
           /\ Return(i, c, [Ok200 EXCEPT !.path = c.path], <<>>)
           /\ UNCHANGED procs

\* run_code up to the body of its with block: the gate, the language, the name
\* drawn for the temp file and open(temp_path, "w"); hex is uuid4().hex, which
\* no other invocation has drawn
RunOpen(hdrs, langs, codes, uuids) ==
    \E i \in Calls, h \in hdrs, l \in langs, code \in codes, hex \in uuids :
        LET r == [NoReq EXCEPT !.ep = "run_code", !.hdr = h, !.language = l,
                               !.text = code, !.timeout = 1]
            c == [NoCall EXCEPT !.r = r]
            temp_filename == TempFilename(hex, LANGUAGE_EXTENSIONS[StrLower(l)])
            temp_path == WORKSPACE \o <<temp_filename>>
            opened == Open(fs, temp_path)
        IN /\ calls[i].pc = "idle"
           /\ \A j \in Calls : calls[j].hex # hex
           /\ IF ~verify_token(h) THEN Return(i, c, Forbidden, <<>>) /\ fs' = fs
              ELSE IF ~Supported(l)
              THEN Return(i, c, HTTPException(400, "Unsupported language"), <<>>)
                   /\ fs' = fs
              ELSE IF ~opened.ok
              THEN Return(i, c, HTTPException(500, "open"), <<>>) /\ fs' = fs
              ELSE /\ Step(i, [c EXCEPT !.pc = "opened", !.path = temp_path,
                                        !.hex = hex])
                   /\ fs' = opened.fs
           /\ Cardinality(DOMAIN fs') <= MaxEntries
           /\ UNCHANGED procs

\* run_code: f.write(req.code) and the close
RunWrite ==
    \E i \in Calls :
        LET c == calls[i]
        IN /\ c.r.ep = "run_code" /\ c.pc = "opened"
           /\ fs' = WriteClose(fs, c.path, EncodeText(c.r.text))
           /\ Step(i, [c EXCEPT !.pc = "written"])
           /\ UNCHANGED procs

\* run_code to its end: subprocess.run of the runner on temp_filename, whose
\* interpreter reads what the file holds by then, and the answer
RunExec ==
    \E i \in Calls : \E env \in Envs(calls[i].r.cmd, calls[i].r.timeout) :
        LET c == calls[i]
            temp_path == Norm(c.path)
            temp_filename == temp_path[Len(temp_path)]
            result == subprocess_run(fs, Older(procs), c.r.cmd, c.r.timeout,
                                     temp_filename, env)
            read == IF temp_path \in DOMAIN fs THEN fs[temp_path].data ELSE <<>>
        IN /\ c.r.ep = "run_code" /\ c.pc = "written"
           /\ fs' = Cleanup(result.fs, temp_path)
           /\ procs' = result.procs
           /\ IF result.outcome = "timeout"
              THEN Return(i, [c EXCEPT !.ran = read],
                          HTTPException(408, "Code execution timed out"),
                          temp_filename)
              ELSE IF result.outcome = "error"
              THEN Return(i, c, HTTPException(500, "subprocess"), temp_filename)
              ELSE Return(i, [c EXCEPT !.ran = read],
                          [Ok200 EXCEPT !.exit_code = result.exit_code,
                                        !.temp_file = temp_filename],
                          temp_filename)

\* texts of different lengths
TextsApart == {<<"x">>, <<"y", "y">>}
CodesApart == {<<"c">>, <<"d">>}
\* values of uuid4().hex that differ past their first HexLen digits only
UuidsAlike == {Rep("0", 32), Rep("0", 31) \o <<"1">>}

\* Requests that are handled side by side
NextConc ==
    \/ UploadCheck({GoodHeader}, {FileA}, {<<>>}, Blobs)
    \/ UploadOpen
    \/ UploadWrite
    \/ WriteOpen({GoodHeader}, {RelPath(<<FileA>>), AbsPath(<<FileA>>)}, TextsApart)
    \/ WriteFlush
    \/ RunOpen({GoodHeader}, {py, js}, CodesApart, Uuids \cup UuidsAlike)
    \/ RunWrite
    \/ RunExec

SpecConc == Init /\ [][NextConc]_vars

----------------------------------------------------------------------------
(* Uploads side by side (SpecConc) *)

\* only uploads have been taken
OnlyUploads == \A i \in Calls : calls[i].pc # "idle" => calls[i].r.ep = "upload"

\* handler i opens its target in this step
Opens(i) == calls[i].pc = "await" /\ calls'[i].pc = "opened"

\* every upload answered with success has a stored file of its own that holds
\* its content
UploadsStored ==
    \A i \in Calls :
        (calls[i].pc = "done" /\ calls[i].resp.status = 200) =>
            /\ Exists(fs, calls[i].path)
            /\ fs[Norm(calls[i].path)] = FileEntry(calls[i].r.text)
            /\ \A j \in Calls \ {i} :
                   (calls[j].pc = "done" /\ calls[j].resp.status = 200) =>
                       Norm(calls[j].path) # Norm(calls[i].path)

\* C11: under any interleaving of concurrent uploads, no upload opens for
\* writing a path at which a file exists already, and every upload answered
\* with success has its own distinct stored file holding exactly its content
UploadNeverOverwrites ==
    [][OnlyUploads' =>
          /\ \A i \in Calls : Opens(i) => ~Exists(fs, calls[i].path)
          /\ UploadsStored']_vars

----------------------------------------------------------------------------
(* Writes side by side (SpecConc) *)

\* the handlers that write to path p
Writers(p) == {i \in Calls : calls[i].r.ep = "write" /\ Norm(calls[i].path) = p}

\* i is the writer of p that answered last
WroteLast(i, p) == \A j \in Writers(p) : calls[j].order <= calls[i].order

\* C12: last write wins: once two or more concurrent successful writes to the
\* same path have all returned, the file holds the full content of exactly one
\* of them, the one whose write happened last, and never a mixture of the
\* bytes of several
LastWriteWins ==
    \A p \in DOMAIN fs :
        (/\ Cardinality(Writers(p)) >= 2
         /\ \A i \in Calls : calls[i].pc # "idle" => i \in Writers(p)
         /\ \A i \in Writers(p) : calls[i].pc = "done" /\ calls[i].resp.status = 200)
        => \E i \in Writers(p) :
               /\ WroteLast(i, p)
               /\ fs[p] = FileEntry(EncodeText(calls[i].r.text))

----------------------------------------------------------------------------
(* Scripts side by side (SpecConc) *)

\* the invocations of run_code that have been given a temp file name
Named == {i \in Calls : calls[i].r.ep = "run_code" /\ calls[i].path # <<>>}

\* the code invocation i was sent, as its temp file holds it
OwnCode(i) == EncodeText(calls[i].r.text)

\* no two invocations have the same temp file
NamesDiffer == \A i \in Named : \A j \in Named \ {i} : calls[j].path # calls[i].path

\* the temp file an invocation has written holds that invocation's code
TempFilesIntact ==
    \A i \in Named :
        calls[i].pc \in {"written", "done"} => fs[calls[i].path] = FileEntry(OwnCode(i))

\* an invocation that answers with success has run its own code
RanOwnCode ==
    \A i \in Named :
        (calls[i].pc = "done" /\ calls[i].resp.status = 200) => calls[i].ran = OwnCode(i)

\* C13: any two invocations of run_code, one after the other or side by side,
\* are given different temp file names, so an invocation never overwrites the
\* temp file of another and never runs code that another invocation wrote
TempNamesUnique == NamesDiffer /\ TempFilesIntact /\ RanOwnCode

====
